---- MODULE Spec2Model ----
(***************************************************************************)
(* Moving-average crossover backtester (averageMoveTrader):                *)
(* calc_strategy_performance, calculate_metrics, optimise_strategy and the *)
(* __main__ flow that strings them together.                               *)
(*                                                                         *)
(* A pandas float is modelled exactly: NaN, +/-inf or a rational n/d in    *)
(* lowest terms.  A DataFrame is a function from column names to columns,  *)
(* a column is a sequence of floats, and DataFrames live in a heap so that *)
(* a copy and an alias are different things.  Row t of the source (0-based)*)
(* is element t+1 of a column; At(col, t) reads it.                        *)
(***************************************************************************)
EXTENDS Integers, Sequences, FiniteSets, TLC

\* ---------------------------------------------------------------- bounds
\* close prices are drawn from 1..MaxPrice
MaxPrice == 2
\* arbitrary price series have 0..MaxLen bars
MaxLen == 3
\* manually entered windows are drawn from -1..MaxWin
MaxWin == 4
\* long price series end TailBars bars after row LongStart
TailBars == 4

\* ------------------------------------------------------ program constants
ShortStart == 10
ShortStop == 61
ShortStep == 5
LongStart == 100
LongStop == 251
LongStep == 10
TradingDays == 252

\* ------------------------------------------------------------------ floats
Abs(x) == IF x < 0 THEN 0 - x ELSE x

Sgn(x) == IF x < 0 THEN 0 - 1 ELSE IF x > 0 THEN 1 ELSE 0

RECURSIVE GCD(_, _)
GCD(a, b) == IF b = 0 THEN a ELSE GCD(b, a % b)

NaN == [nan |-> TRUE, n |-> 0, d |-> 1]

\* n/d in lowest terms with d > 0; n/0 is +/-inf, 0/0 is NaN
Rat(n, d) ==
    IF d = 0
    THEN IF n = 0 THEN NaN ELSE [nan |-> FALSE, n |-> Sgn(n), d |-> 0]
    ELSE IF n = 0 THEN [nan |-> FALSE, n |-> 0, d |-> 1]
    ELSE LET g == GCD(Abs(n), Abs(d))
             s == Sgn(d)
         IN [nan |-> FALSE, n |-> (s * n) \div g, d |-> (s * d) \div g]

F(i) == [nan |-> FALSE, n |-> i, d |-> 1]

PosInf == [nan |-> FALSE, n |-> 1, d |-> 0]

NegInf == [nan |-> FALSE, n |-> 0 - 1, d |-> 0]

IsNaN(a) == a.nan

IsInf(a) == ~a.nan /\ a.d = 0

IsFinite(a) == ~a.nan /\ a.d # 0

Add(a, b) ==
    IF a.nan \/ b.nan THEN NaN
    ELSE IF a.d = 0 /\ b.d = 0 THEN (IF a.n = b.n THEN a ELSE NaN)
    ELSE IF a.d = 0 THEN a
    ELSE IF b.d = 0 THEN b
    ELSE IF a.n = 0 THEN b
    ELSE IF b.n = 0 THEN a
    ELSE IF a.d = 1 /\ b.d = 1 THEN F(a.n + b.n)
    ELSE LET g == GCD(a.d, b.d)
         IN Rat(a.n * (b.d \div g) + b.n * (a.d \div g), (a.d \div g) * b.d)

Neg(a) == IF a.nan THEN NaN ELSE [nan |-> FALSE, n |-> 0 - a.n, d |-> a.d]

Sub(a, b) == Add(a, Neg(b))

Mul(a, b) ==
    IF a.nan \/ b.nan THEN NaN
    ELSE IF a.d = 0 \/ b.d = 0 THEN Rat(Sgn(a.n) * Sgn(b.n), 0)
    ELSE IF a.n = 0 \/ b.n = 0 THEN F(0)
    ELSE IF a.d = 1 /\ b.d = 1 THEN F(a.n * b.n)
    ELSE LET g1 == GCD(Abs(a.n), b.d)
             g2 == GCD(Abs(b.n), a.d)
         IN Rat((a.n \div g1) * (b.n \div g2), (a.d \div g2) * (b.d \div g1))

\* IEEE division: x/0 is +/-inf, 0/0 and inf/inf are NaN
Div(a, b) ==
    IF a.nan \/ b.nan THEN NaN
    ELSE IF a.d = 0 /\ b.d = 0 THEN NaN
    ELSE IF b.d = 0 THEN F(0)
    ELSE IF a.d = 0 THEN Rat(a.n * (IF b.n < 0 THEN 0 - 1 ELSE 1), 0)
    ELSE IF b.n = 0 THEN Rat(a.n, 0)
    ELSE Mul(a, Rat(b.d, b.n))

\* a/b > c/d for a, c >= 0 and b, d > 0, by comparing the integer parts and
\* then the reciprocals of the fractional parts (no product is formed)
RECURSIVE GtFrac(_, _, _, _)
GtFrac(a, b, c, d) ==
    IF a \div b # c \div d THEN a \div b > c \div d
    ELSE IF a % b = 0 THEN FALSE
    ELSE IF c % d = 0 THEN TRUE
    ELSE GtFrac(d, c % d, b, a % b)

\* Python's a > b on floats: False whenever either side is NaN
Gt(a, b) ==
    IF a.nan \/ b.nan THEN FALSE
    ELSE IF a.d = 0 /\ b.d = 0 THEN a.n > b.n
    ELSE IF a.d = 0 THEN a.n > 0
    ELSE IF b.d = 0 THEN b.n < 0
    ELSE IF Sgn(a.n) # Sgn(b.n) THEN a.n > b.n
    ELSE IF a.n >= 0 THEN GtFrac(a.n, a.d, b.n, b.d)
    ELSE GtFrac(0 - b.n, b.d, 0 - a.n, a.d)

\* Python's a == b on floats: False whenever either side is NaN
Eq(a, b) == ~a.nan /\ ~b.nan /\ a = b

\* x |-> sgn(x) * x^2, the strictly increasing map under which a value that
\* holds a square root (std, Sharpe, volatility) is stored exactly
SignedSq(a) == IF a.nan THEN NaN ELSE Mul(a, [a EXCEPT !.n = Abs(a.n)])

\* ----------------------------------------------------------------- Series
At(col, t) == col[t + 1]

\* a column is stored as an array: every row is computed once, when the
\* column is built
Column(rows) == rows \o << >>

\* the recursions below halve their range, so that a column of n rows is
\* walked to depth log n
Mid(lo, hi) == (lo + hi) \div 2

\* rows lo..hi of the running sum of the integer rows of s that stands at
\* acc before row lo
RECURSIVE CumSumRange(_, _, _, _)
CumSumRange(s, lo, hi, acc) ==
    IF lo > hi THEN << >>
    ELSE IF lo = hi THEN <<acc + s[lo].n>>
    ELSE LET left == CumSumRange(s, lo, Mid(lo, hi), acc)
         IN left \o CumSumRange(s, Mid(lo, hi) + 1, hi, left[Len(left)])

\* Series.rolling(window).mean() on a column without NaN: min_periods is the
\* window, so the first window-1 rows are NaN; a window of 0 has no
\* observations and gives NaN everywhere.  The window's sum is kept as pandas
\* keeps it, the row entering added and the row leaving removed
rolling_mean(s, window) ==
    LET total == CumSumRange(s, 1, Len(s), 0)
    IN Column([t \in 1..Len(s) |->
        IF window >= 1 /\ t >= window
        THEN Rat(total[t] - (IF t = window THEN 0 ELSE total[t - window]), window)
        ELSE NaN])

\* Series.shift(1)
shift(s) == Column([t \in 1..Len(s) |-> IF t = 1 THEN NaN ELSE s[t - 1]])

\* Series.diff()
diff(s) ==
    Column([t \in 1..Len(s) |-> IF t = 1 THEN NaN ELSE Sub(s[t], s[t - 1])])

\* Series.pct_change()
pct_change(s) ==
    Column([t \in 1..Len(s) |->
        IF t = 1 THEN NaN ELSE Sub(Div(s[t], s[t - 1]), F(1))])

\* element-wise a * b and 1 + a
times(a, b) == Column([t \in 1..Len(a) |-> Mul(a[t], b[t])])

one_plus(a) == Column([t \in 1..Len(a) |-> Add(F(1), a[t])])

\* the last row of rows[1..t] that is not NaN, init when there is none
RECURSIVE LastValid(_, _, _)
LastValid(rows, t, init) ==
    IF t = 0 THEN init
    ELSE IF rows[t].nan THEN LastValid(rows, t - 1, init) ELSE rows[t]

\* rows lo..hi of the running product that stands at acc before row lo
RECURSIVE CumProdRange(_, _, _, _)
CumProdRange(s, lo, hi, acc) ==
    IF lo > hi THEN << >>
    ELSE IF lo = hi THEN <<IF s[lo].nan THEN NaN ELSE Mul(acc, s[lo])>>
    ELSE LET left == CumProdRange(s, lo, Mid(lo, hi), acc)
         IN left \o CumProdRange(s, Mid(lo, hi) + 1, hi, LastValid(left, Len(left), acc))

\* Series.cumprod(): NaN rows stay NaN and are skipped by the running product
cumprod(s) == CumProdRange(s, 1, Len(s), F(1))

\* rows lo..hi of the running maximum that stands at acc before row lo
RECURSIVE CumMaxRange(_, _, _, _)
CumMaxRange(s, lo, hi, acc) ==
    IF lo > hi THEN << >>
    ELSE IF lo = hi
    THEN <<IF s[lo].nan THEN NaN ELSE IF acc.nan \/ Gt(s[lo], acc) THEN s[lo] ELSE acc>>
    ELSE LET left == CumMaxRange(s, lo, Mid(lo, hi), acc)
         IN left \o CumMaxRange(s, Mid(lo, hi) + 1, hi, LastValid(left, Len(left), acc))

\* Series.cummax(): NaN rows stay NaN and are skipped by the running maximum
cummax(s) == CumMaxRange(s, 1, Len(s), NaN)

\* the rows of s[lo..hi] that are not NaN (skipna=True)
RECURSIVE DropNaRange(_, _, _)
DropNaRange(s, lo, hi) ==
    IF lo > hi THEN << >>
    ELSE IF lo = hi THEN (IF s[lo].nan THEN << >> ELSE <<s[lo]>>)
    ELSE DropNaRange(s, lo, Mid(lo, hi)) \o DropNaRange(s, Mid(lo, hi) + 1, hi)

DropNa(s) == DropNaRange(s, 1, Len(s))

\* the sum of the rows s[lo..hi]
RECURSIVE SumSeq(_, _, _)
SumSeq(s, lo, hi) ==
    IF lo > hi THEN F(0)
    ELSE IF lo = hi THEN s[lo]
    ELSE Add(SumSeq(s, lo, Mid(lo, hi)), SumSeq(s, Mid(lo, hi) + 1, hi))

\* Series.mean(): NaN when no row is defined
mean(s) ==
    LET v == DropNa(s)
    IN IF Len(v) = 0 THEN NaN ELSE Div(SumSeq(v, 1, Len(v)), F(Len(v)))

\* Series.cov(): the sample covariance (ddof = 1) of the rows where both a
\* and b are defined, sum((a - mean a)(b - mean b)) / (k - 1), which is
\* (sum(ab) - sum(a) sum(b) / k) / (k - 1); NaN without such a row, and 0/0
\* with one
cov(a, b) ==
    LET av == DropNa(Column([t \in 1..Len(a) |-> IF b[t].nan THEN NaN ELSE a[t]]))
        bv == DropNa(Column([t \in 1..Len(a) |-> IF a[t].nan THEN NaN ELSE b[t]]))
        k == Len(av)
        sab == SumSeq(times(av, bv), 1, k)
        sa == SumSeq(av, 1, k)
        sb == SumSeq(bv, 1, k)
    IN IF k = 0 THEN NaN
       ELSE Div(Sub(sab, Div(Mul(sa, sb), F(k))), F(k - 1))

\* Series.var(): sample variance (ddof = 1), NaN with fewer than two rows
var(s) ==
    LET v == DropNa(s)
    IN IF Len(v) <= 1 THEN NaN ELSE cov(v, v)

\* the largest of the rows s[lo..hi] that are not NaN
RECURSIVE MaxRange(_, _, _)
MaxRange(s, lo, hi) ==
    IF lo > hi THEN NaN
    ELSE IF lo = hi THEN s[lo]
    ELSE LET l == MaxRange(s, lo, Mid(lo, hi))
             r == MaxRange(s, Mid(lo, hi) + 1, hi)
         IN IF l.nan THEN r ELSE IF r.nan THEN l ELSE IF Gt(r, l) THEN r ELSE l

\* Series.max(): NaN when no row is defined
max(s) == MaxRange(s, 1, Len(s))

\* ------------------------------------------------------ DataFrames, heap
\* df[name] = col
SetCol(frame, name, col) ==
    [c \in DOMAIN frame \cup {name} |-> IF c = name THEN col ELSE frame[c]]

\* the same assignment made through a reference
Assign(h, ref, name, col) == [h EXCEPT ![ref] = SetCol(h[ref], name, col)]

NewRef(h) == CHOOSE r \in 1..(Cardinality(DOMAIN h) + 1) : r \notin DOMAIN h

\* the mutant of copy: df = data, an alias of the caller's object
alias(h, ref) == [heap |-> h, ref |-> ref]

\* DataFrame.copy(): a new object with the same columns and values
copy(h, ref) ==
    LET new == NewRef(h)
    IN [heap |-> [r \in DOMAIN h \cup {new} |-> IF r = new THEN h[ref] ELSE h[r]],
        ref |-> new]

\* keep the objects some name still refers to
Collect(h, roots) == [r \in DOMAIN h \cap roots |-> h[r]]

NoException == "none"

\* -------------------------------------------------------------- SignalEngine
\* the mutant of SignalColumn: the comparison starts at row long_window - 1,
\* the first row where both moving averages are defined
SignalColumnFromFirstDefined(fast, slow, long_window) ==
    Column([t \in 1..Len(fast) |->
        IF t - 1 >= long_window - 1 /\ Gt(fast[t], slow[t]) THEN F(1) ELSE F(0)])

\* df['Signal'] = 0.0, then rows long_window.. are overwritten by
\* np.where(Fast_MA > Slow_MA, 1.0, 0.0)
SignalColumn(fast, slow, long_window) ==
    Column([t \in 1..Len(fast) |->
        IF t - 1 >= long_window /\ Gt(fast[t], slow[t]) THEN F(1) ELSE F(0)])

\* the mutant of PositionColumn: the signal of the same bar
PositionColumnUnshifted(signal) == signal

\* df['Signal'].shift(1)
PositionColumn(signal) == shift(signal)

\* the mutant of CrossoverColumn: the absolute change
CrossoverColumnAbs(signal) ==
    Column([t \in 1..Len(signal) |->
        IF t = 1 THEN NaN
        ELSE LET c == Sub(signal[t], signal[t - 1]) IN [c EXCEPT !.n = Abs(c.n)]])

\* df['Signal'].diff()
CrossoverColumn(signal) == diff(signal)

\* returns [heap, ret, exc]: the heap after the call, the reference returned
\* and the exception raised (rolling() rejects a negative window)
calc_strategy_performance(h, data, short_window, long_window) ==
    LET c == copy(h, data)
        df == c.ref
        close == c.heap[df]["Close"]
        fast == rolling_mean(close, short_window)
        slow == rolling_mean(close, long_window)
        signal == SignalColumn(fast, slow, long_window)
        h1 == Assign(c.heap, df, "Fast_MA", fast)
        h2 == Assign(h1, df, "Slow_MA", slow)
        h3 == Assign(h2, df, "Signal", signal)
        h4 == Assign(h3, df, "Crossover", CrossoverColumn(signal))
        h5 == Assign(h4, df, "Position", PositionColumn(signal))
    IN IF short_window < 0 THEN [heap |-> c.heap, ret |-> 0, exc |-> "ValueError"]
       ELSE IF long_window < 0 THEN [heap |-> h1, ret |-> 0, exc |-> "ValueError"]
       ELSE [heap |-> h5, ret |-> df, exc |-> NoException]

\* ------------------------------------------------------------- MetricsEngine
NoMetrics == [k \in {} |-> NaN]

\* the mutant of StrategyReturnColumn: the position of the same bar
StrategyReturnColumnSameBar(daily, position) == times(daily, position)

\* data['Daily_Return'] * data['Position'].shift(1)
StrategyReturnColumn(daily, position) == times(daily, shift(position))

\* (max - cum) / max, row by row
DrawdownColumn(cum_max, cum) ==
    Column([t \in 1..Len(cum) |-> Div(Sub(cum_max[t], cum[t]), cum_max[t])])

\* the mutant of SharpeRatio: no guard on a zero standard deviation
SharpeRatioUnguarded(mean_daily_return, variance) ==
    Div(SignedSq(Mul(mean_daily_return, F(TradingDays))), Mul(variance, F(TradingDays)))

\* (mean * 252) / (std * sqrt(252)), NaN when std == 0; held as SignedSq of
\* the ratio, with std^2 = variance
SharpeRatio(mean_daily_return, variance) ==
    IF Eq(variance, F(0)) THEN NaN
    ELSE Div(SignedSq(Mul(mean_daily_return, F(TradingDays))),
             Mul(variance, F(TradingDays)))

\* annualised_return / max_drawdown, NaN when max_drawdown == 0
CalmarRatio(annualised_return, max_drawdown) ==
    IF Eq(max_drawdown, F(0)) THEN NaN ELSE Div(annualised_return, max_drawdown)

\* returns [heap, ret, exc]; the columns are added to the caller's DataFrame.
\* iloc[-1] of an empty column raises IndexError after the first four columns
\* were added
calculate_metrics(h, data) ==
    LET close == h[data]["Close"]
        daily == pct_change(close)
        strat == StrategyReturnColumn(daily, h[data]["Position"])
        cum_bench == cumprod(one_plus(daily))
        cum_strat == cumprod(one_plus(strat))
        h1 == Assign(h, data, "Daily_Return", daily)
        h2 == Assign(h1, data, "Strategy_Return", strat)
        h3 == Assign(h2, data, "Cumulative_Benchmark", cum_bench)
        h4 == Assign(h3, data, "Cumulative_Strategy", cum_strat)
        total_strategy_return == Sub(cum_strat[Len(cum_strat)], F(1))
        total_benchmark_return == Sub(cum_bench[Len(cum_bench)], F(1))
        mean_daily_return == mean(strat)
        variance == var(strat)
        annualised_sharpe == SharpeRatio(mean_daily_return, variance)
        cum_max == cummax(cum_strat)
        drawdown == DrawdownColumn(cum_max, cum_strat)
        h5 == Assign(h4, data, "Cumulative_Max", cum_max)
        h6 == Assign(h5, data, "Drawdown", drawdown)
        max_drawdown == max(drawdown)
        beta == Div(cov(strat, daily), var(daily))
        mean_benchmark_return == mean(daily)
        alpha == Sub(mean_daily_return, Mul(beta, mean_benchmark_return))
        annualised_return == Mul(mean_daily_return, F(TradingDays))
    IN IF Len(close) = 0
       THEN [heap |-> h4, ret |-> NoMetrics, exc |-> "IndexError"]
       ELSE [heap |-> h6,
             ret |-> [k \in {"Total Strategy Return", "Total Buy-and-Hold Return",
                             "Sharpe Ratio", "Maximum Drawdown", "Beta",
                             "Annualised Alpha", "Annualised Volatility",
                             "Calmar Ratio"} |->
                 CASE k = "Total Strategy Return" -> total_strategy_return
                   [] k = "Total Buy-and-Hold Return" -> total_benchmark_return
                   [] k = "Sharpe Ratio" -> annualised_sharpe
                   [] k = "Maximum Drawdown" -> max_drawdown
                   [] k = "Beta" -> beta
                   [] k = "Annualised Alpha" -> Mul(alpha, F(TradingDays))
                   [] k = "Annualised Volatility" -> Mul(variance, F(TradingDays))
                   [] k = "Calmar Ratio" -> CalmarRatio(annualised_return, max_drawdown)],
             exc |-> NoException]

\* ------------------------------------------------------------------ state
VARIABLES
    pc,                 \* where the __main__ flow stands
    heap,               \* the live DataFrames, by reference
    data,               \* __main__: the downloaded price history
    choice,             \* __main__: the menu entry typed, "" before it
    short_window,       \* __main__: the windows (0 while unbound)
    long_window,
    data_with_signals,  \* __main__: reference (0 while unbound)
    metrics,            \* __main__: the metrics dict
    best_sharpe,        \* optimise_strategy: the incumbent
    best_params,
    si,                 \* optimise_strategy: place in short_window_range
    li,                 \* optimise_strategy: place in long_window_range
    temp_data,          \* optimise_strategy: reference (0 while unbound)
    opt_metrics,        \* optimise_strategy: its local metrics dict
    scored,             \* history: the pairs scored so far, with their Sharpe
    exception           \* the exception that ended the program

vars == <<pc, heap, data, choice, short_window, long_window, data_with_signals,
          metrics, best_sharpe, best_params, si, li, temp_data, opt_metrics, scored,
          exception>>

\* range(start, stop, step) for a positive step
range(start, stop, step) ==
    [i \in 1..((stop - start + step - 1) \div step) |-> start + (i - 1) * step]

short_window_range == range(ShortStart, ShortStop, ShortStep)

long_window_range == range(LongStart, LongStop, LongStep)

\* ----------------------------------------------------------------- inputs
Prices == 1..MaxPrice

\* every price series of at most MaxLen bars
ShortSeries == UNION {[1..k -> Prices] : k \in 0..MaxLen}

\* a long series: LongStart + TailBars bars at level, but for the bars of
\* lows, at 1, and for the last two bars, at last2 and last1
Long(level, lows, last2, last1) ==
    [t \in 1..(LongStart + TailBars) |->
        IF t \in lows THEN 1
        ELSE IF t = LongStart + TailBars - 1 THEN last2
        ELSE IF t = LongStart + TailBars THEN last1
        ELSE level]

\* the constant long series
FlatSeries == {Long(MaxPrice, {}, MaxPrice, MaxPrice)}

\* a long series with one low bar, the row that leaves the window of the
\* second candidate (ShortStart + ShortStep bars) when it comes to end at row
\* LongStart + 1; the last bar is at the level or one below it
DipSeries ==
    {Long(MaxPrice, {LongStart + 2 - (ShortStart + ShortStep)}, last2, last1) :
        last2 \in Prices, last1 \in {MaxPrice - 1, MaxPrice}}

\* the DataFrame the price provider returns for a series of closes
Downloaded(closes) ==
    [c \in {"Close"} |-> Column([t \in 1..Len(closes) |-> F(closes[t])])]

WindowInputs == (0 - 1)..MaxWin

InitWith(series) ==
    /\ pc = "choice"
    /\ heap \in {[r \in {1} |-> Downloaded(s)] : s \in series}
    /\ data = 1
    /\ choice = ""
    /\ short_window = 0
    /\ long_window = 0
    /\ data_with_signals = 0
    /\ metrics = NoMetrics
    /\ best_sharpe = NegInf
    /\ best_params = <<0, 0>>
    /\ si = 0
    /\ li = 0
    /\ temp_data = 0
    /\ opt_metrics = NoMetrics
    /\ scored = << >>
    /\ exception = NoException

Init == InitWith(ShortSeries \cup FlatSeries \cup DipSeries)

\* ---------------------------------------------------------------- __main__
OptimiserLocals ==
    <<best_sharpe, best_params, si, li, temp_data, opt_metrics, scored>>

MainLocals == <<choice, short_window, long_window, data_with_signals, metrics>>

\* choice == '1': both windows are typed in
ChooseManual ==
    /\ pc = "choice"
    /\ \E sw \in WindowInputs, lw \in WindowInputs :
        /\ short_window' = sw
        /\ long_window' = lw
    /\ choice' = "1"
    /\ pc' = "calc"
    /\ UNCHANGED <<heap, data, data_with_signals, metrics, exception>>
    /\ UNCHANGED OptimiserLocals

\* choice == '2': optimise_strategy(data) is entered
ChooseOptimise ==
    /\ pc = "choice"
    /\ choice' = "2"
    /\ pc' = "optimise"
    /\ best_sharpe' = NegInf
    /\ best_params' = <<0, 0>>
    /\ si' = 1
    /\ li' = 1
    /\ UNCHANGED <<heap, data, short_window, long_window, data_with_signals,
                   metrics, temp_data, opt_metrics, scored, exception>>

\* any other choice: exit()
ChooseInvalid ==
    /\ pc = "choice"
    /\ choice' = "other"
    /\ pc' = "exit"
    /\ UNCHANGED <<heap, data, short_window, long_window, data_with_signals,
                   metrics, exception>>
    /\ UNCHANGED OptimiserLocals

\* a mutant of Better: the incumbent is replaced on an equal Sharpe too
BetterOrEqual(sharpe, incumbent) == Gt(sharpe, incumbent) \/ Eq(sharpe, incumbent)

\* a mutant of Better: the incumbent is kept only when it is at least as good,
\* so that a NaN replaces it
BetterUnlessWorse(sharpe, incumbent) ==
    ~(Gt(incumbent, sharpe) \/ Eq(incumbent, sharpe))

\* metrics['Sharpe Ratio'] > best_sharpe
Better(sharpe, incumbent) == Gt(sharpe, incumbent)

\* one pass of the inner loop body of optimise_strategy
OptimiseIterate ==
    /\ pc = "optimise"
    /\ si <= Len(short_window_range)
    /\ LET short == short_window_range[si]
           long == long_window_range[li]
           last == li = Len(long_window_range)
       IN \E r1 \in {calc_strategy_performance(heap, data, short, long)} :
          \E r2 \in {calculate_metrics(r1.heap, r1.ret)} :
          LET sharpe == r2.ret["Sharpe Ratio"] IN
          /\ si' = IF last THEN si + 1 ELSE si
          /\ li' = IF last THEN 1 ELSE li + 1
          /\ IF short >= long
             THEN UNCHANGED <<pc, heap, temp_data, opt_metrics, best_sharpe,
                              best_params, scored, exception>>
             ELSE IF r2.exc # NoException
             THEN /\ pc' = "raised"
                  /\ exception' = r2.exc
                  /\ temp_data' = r1.ret
                  /\ heap' = Collect(r2.heap, {data, r1.ret})
                  /\ UNCHANGED <<opt_metrics, best_sharpe, best_params, scored>>
             ELSE /\ temp_data' = r1.ret
                  /\ opt_metrics' = r2.ret
                  /\ heap' = Collect(r2.heap, {data, r1.ret})
                  /\ scored' = Append(scored, <<short, long, sharpe>>)
                  /\ IF Better(sharpe, best_sharpe)
                     THEN /\ best_sharpe' = sharpe
                          /\ best_params' = <<short, long>>
                     ELSE UNCHANGED <<best_sharpe, best_params>>
                  /\ UNCHANGED <<pc, exception>>
    /\ UNCHANGED <<data>>
    /\ UNCHANGED MainLocals

\* both loops are exhausted: return best_params
OptimiseReturn ==
    /\ pc = "optimise"
    /\ si > Len(short_window_range)
    /\ short_window' = best_params[1]
    /\ long_window' = best_params[2]
    /\ temp_data' = 0
    /\ opt_metrics' = NoMetrics
    /\ heap' = Collect(heap, {data})
    /\ pc' = "calc"
    /\ UNCHANGED <<data, choice, data_with_signals, metrics, best_sharpe,
                   best_params, si, li, scored, exception>>

\* data_with_signals = calc_strategy_performance(data, short_window, long_window)
CalcStrategy ==
    /\ pc = "calc"
    /\ LET r == calc_strategy_performance(heap, data, short_window, long_window)
       IN IF r.exc # NoException
          THEN /\ pc' = "raised"
               /\ exception' = r.exc
               /\ heap' = Collect(r.heap, {data})
               /\ UNCHANGED data_with_signals
          ELSE /\ pc' = "metrics"
               /\ data_with_signals' = r.ret
               /\ heap' = r.heap
               /\ UNCHANGED exception
    /\ UNCHANGED <<data, choice, short_window, long_window, metrics>>
    /\ UNCHANGED OptimiserLocals

\* metrics = calculate_metrics(data_with_signals)
CalcMetrics ==
    /\ pc = "metrics"
    /\ LET r == calculate_metrics(heap, data_with_signals)
       IN /\ heap' = r.heap
          /\ IF r.exc # NoException
             THEN /\ pc' = "raised"
                  /\ exception' = r.exc
                  /\ UNCHANGED metrics
             ELSE /\ pc' = "print"
                  /\ metrics' = r.ret
                  /\ UNCHANGED exception
    /\ UNCHANGED <<data, choice, short_window, long_window, data_with_signals>>
    /\ UNCHANGED OptimiserLocals

\* print_metrics(metrics): every key of the dict is formatted
print_metrics ==
    /\ pc = "print"
    /\ IF {"Total Strategy Return", "Total Buy-and-Hold Return", "Sharpe Ratio",
           "Maximum Drawdown", "Beta", "Annualised Alpha", "Annualised Volatility",
           "Calmar Ratio"} \subseteq DOMAIN metrics
       THEN pc' = "plot" /\ UNCHANGED exception
       ELSE pc' = "raised" /\ exception' = "KeyError"
    /\ UNCHANGED <<heap, data>>
    /\ UNCHANGED MainLocals
    /\ UNCHANGED OptimiserLocals

\* plot_data(data_with_signals, ...): every column it draws is read
plot_data ==
    /\ pc = "plot"
    /\ IF {"Close", "Fast_MA", "Slow_MA", "Crossover", "Cumulative_Strategy",
           "Cumulative_Benchmark", "Drawdown"} \subseteq DOMAIN heap[data_with_signals]
       THEN pc' = "done" /\ UNCHANGED exception
       ELSE pc' = "raised" /\ exception' = "KeyError"
    /\ UNCHANGED <<heap, data>>
    /\ UNCHANGED MainLocals
    /\ UNCHANGED OptimiserLocals

Next ==
    \/ ChooseManual
    \/ ChooseOptimise
    \/ ChooseInvalid
    \/ OptimiseIterate
    \/ OptimiseReturn
    \/ CalcStrategy
    \/ CalcMetrics
    \/ print_metrics
    \/ plot_data

Spec == Init /\ [][Next]_vars

\* the signal engine alone, on the arbitrary series and on the scenario of
\* ten closes: the windows are typed in and calc_strategy_performance is
\* applied
ScenarioPrices == <<100, 102, 101, 105, 110, 108, 115, 120, 118, 125>>

InitScenario == InitWith(ShortSeries \cup {ScenarioPrices})

NextScenario == ChooseManual \/ CalcStrategy

SpecScenario == InitScenario /\ [][NextScenario]_vars

\* ------------------------------------------------------------------ claims
\* the DataFrames calc_strategy_performance has returned that are still
\* referred to, each with the windows it was called with
Results ==
    (IF data_with_signals # 0
     THEN {[df |-> heap[data_with_signals], short |-> short_window,
            long |-> long_window]}
     ELSE {})
    \cup
    (IF temp_data # 0 /\ pc = "optimise"
     THEN {[df |-> heap[temp_data], short |-> scored[Len(scored)][1],
            long |-> scored[Len(scored)][2]]}
     ELSE {})

Rows(df) == 0..(Len(df["Close"]) - 1)

\* C1: in every frame calc_strategy_performance returned for short < long,
\* position[t] = signal[t-1] for all t > 0 and position[0] is NaN
C1_PositionLagsSignal ==
    \A r \in Results :
        r.short < r.long =>
            \A t \in Rows(r.df) :
                IF t = 0 THEN IsNaN(At(r.df["Position"], 0))
                ELSE At(r.df["Position"], t) = At(r.df["Signal"], t - 1)

\* a frame for short < long that holds a position of 1 on some row
C1_Witness ==
    \E r \in Results :
        /\ r.short < r.long
        /\ \E t \in Rows(r.df) : t > 0 /\ At(r.df["Position"], t) = F(1)

\* C2: signal[t] is 1 exactly when fast_ma[t] > slow_ma[t] for t >= long_window
\* and 0 for t < long_window, row long_window - 1 included
C2_SignalFromLongWindow ==
    \A r \in Results :
        \A t \in Rows(r.df) :
            At(r.df["Signal"], t) =
                IF t >= r.long /\ Gt(At(r.df["Fast_MA"], t), At(r.df["Slow_MA"], t))
                THEN F(1) ELSE F(0)

\* a frame where both averages are defined on row long_window - 1, whose
\* signal is 0, and where the signal is 1 on a later row and 0 on another
C2_Witness ==
    \E r \in Results :
        /\ r.short < r.long
        /\ r.long - 1 \in Rows(r.df)
        /\ IsFinite(At(r.df["Fast_MA"], r.long - 1))
        /\ IsFinite(At(r.df["Slow_MA"], r.long - 1))
        /\ At(r.df["Signal"], r.long - 1) = F(0)
        /\ \E t, u \in Rows(r.df) :
            /\ t >= r.long /\ At(r.df["Signal"], t) = F(1)
            /\ u >= r.long /\ At(r.df["Signal"], u) = F(0)

\* the scenario: the ten closes with short_window = 2 and long_window = 4,
\* once calc_strategy_performance has returned
ScenarioDone ==
    /\ pc = "metrics"
    /\ heap[data]["Close"] = Downloaded(ScenarioPrices)["Close"]
    /\ short_window = 2
    /\ long_window = 4

\* C3 as stated: fast_ma[3] = 103, slow_ma[3] = 102, signal[3] = 1 and
\* position[3] = signal[2] = 0
C3_ScenarioAsStated ==
    ScenarioDone =>
        LET df == heap[data_with_signals]
        IN /\ At(df["Fast_MA"], 3) = F(103)
           /\ At(df["Slow_MA"], 3) = F(102)
           /\ At(df["Signal"], 3) = F(1)
           /\ At(df["Position"], 3) = At(df["Signal"], 2)
           /\ At(df["Position"], 3) = F(0)

\* C3 amended: fast_ma[3] = 103 and slow_ma[3] = 102, but signal[3] = 0, row 3
\* being before row long_window = 4; signal[4] = 1 is the first signal, and
\* position[3] = signal[2] = 0
C3_Scenario ==
    ScenarioDone =>
        LET df == heap[data_with_signals]
        IN /\ At(df["Fast_MA"], 3) = F(103)
           /\ At(df["Slow_MA"], 3) = F(102)
           /\ At(df["Signal"], 3) = F(0)
           /\ At(df["Signal"], 4) = F(1)
           /\ At(df["Position"], 3) = At(df["Signal"], 2)
           /\ At(df["Position"], 3) = F(0)

\* the scenario has been computed
C3_Witness == ScenarioDone /\ Len(heap[data_with_signals]["Signal"]) = 10

\* the places of scored whose Sharpe is defined
Defined == {i \in 1..Len(scored) : ~IsNaN(scored[i][3])}

\* scored[i] is the first of the candidates with the greatest defined Sharpe
FirstMaximum(i) ==
    /\ i \in Defined
    /\ \A j \in Defined :
        /\ ~Gt(scored[j][3], scored[i][3])
        /\ j < i => Gt(scored[i][3], scored[j][3])

\* optimise_strategy has returned to __main__
Returned == choice = "2" /\ pc \notin {"choice", "optimise", "raised"}

\* C4: the incumbent of optimise_strategy never holds a NaN Sharpe and is the
\* sentinel exactly while no Sharpe was accepted; the pair returned is the
\* first, in the order scored, with the greatest defined Sharpe, and the
\* sentinel (0, 0) when no Sharpe is defined
C4_FirstStrictMaximum ==
    choice = "2" =>
        /\ ~IsNaN(best_sharpe)
        /\ (best_params = <<0, 0>>) = (best_sharpe = NegInf)
        /\ Returned =>
            /\ <<short_window, long_window>> = best_params
            /\ IF Defined = {} THEN best_params = <<0, 0>>
               ELSE \E i \in Defined :
                    /\ <<scored[i][1], scored[i][2]>> = best_params
                    /\ scored[i][3] = best_sharpe
                    /\ FirstMaximum(i)

\* optimise_strategy returned a pair that a later pair ties with, after NaN
\* candidates were scored and skipped
C4_Witness ==
    /\ Returned
    /\ pc = "calc"
    /\ \E i, j \in Defined :
        /\ i < j
        /\ <<scored[i][1], scored[i][2]>> = best_params
        /\ scored[j][3] = scored[i][3]
        /\ \E k \in (i + 1)..(j - 1) : IsNaN(scored[k][3])

\* the price series is constant and has at least four bars
ConstantSeries ==
    LET close == heap[data]["Close"]
    IN /\ Len(close) >= 4
       /\ \A t \in 1..Len(close) : close[t] = close[1]

ZeroOrNaN(col) == \A t \in 1..Len(col) : IsNaN(col[t]) \/ col[t] = F(0)

\* C5: on a constant series every candidate has strategy returns all 0,
\* standard deviation 0, Sharpe and Calmar NaN and maximum drawdown 0; the
\* incumbent stays (-inf, (0, 0)), nothing is raised and (0, 0) is returned
C5_ConstantSeriesSentinel ==
    (ConstantSeries /\ choice = "2") =>
        /\ pc # "raised"
        /\ best_sharpe = NegInf
        /\ best_params = <<0, 0>>
        /\ \A i \in 1..Len(scored) : IsNaN(scored[i][3])
        /\ (pc = "optimise" /\ temp_data # 0) =>
            /\ ZeroOrNaN(heap[temp_data]["Strategy_Return"])
            /\ \E t \in 3..4 : heap[temp_data]["Strategy_Return"][t] = F(0)
            /\ var(heap[temp_data]["Strategy_Return"]) = F(0)
            /\ IsNaN(opt_metrics["Sharpe Ratio"])
            /\ IsNaN(opt_metrics["Calmar Ratio"])
            /\ opt_metrics["Maximum Drawdown"] = F(0)
        /\ Returned => <<short_window, long_window>> = <<0, 0>>

\* optimise_strategy returned from a constant series, every pair scored
C5_Witness ==
    /\ ConstantSeries
    /\ Returned
    /\ pc = "calc"
    /\ Len(scored) = Len(short_window_range) * Len(long_window_range)
    /\ <<short_window, long_window>> = <<0, 0>>

\* the frames of Results that calculate_metrics has been applied to
Measured == {r \in Results : "Strategy_Return" \in DOMAIN r.df}

\* C6: strategy_return[t] = daily_return[t] * position[t-1], that is
\* daily_return[t] * signal[t-2]; it is NaN on rows 0 and 1 and is 0 or NaN on
\* every row t < long_window + 2
C6_DoubleLag ==
    \A r \in Measured :
        \A t \in Rows(r.df) :
            LET sr == At(r.df["Strategy_Return"], t)
                daily == At(r.df["Daily_Return"], t)
            IN /\ t < 2 => IsNaN(sr)
               /\ t >= 1 => sr = Mul(daily, At(r.df["Position"], t - 1))
               /\ t >= 2 => sr = Mul(daily, At(r.df["Signal"], t - 2))
               /\ t < r.long + 2 => (IsNaN(sr) \/ sr = F(0))

\* a frame with a strategy return that is not 0, on a row whose signal two
\* bars before is 1 and whose signal one bar before is 0
C6_Witness ==
    \E r \in Measured :
        \E t \in Rows(r.df) :
            /\ r.long >= 1
            /\ t >= r.long + 2
            /\ IsFinite(At(r.df["Strategy_Return"], t))
            /\ At(r.df["Strategy_Return"], t) # F(0)
            /\ At(r.df["Signal"], t - 2) = F(1)
            /\ At(r.df["Signal"], t - 1) = F(0)

\* the two functions are being called from __main__ or from optimise_strategy
Deriving == pc \in {"calc", "metrics", "optimise"}

MetricsColumns ==
    {"Daily_Return", "Strategy_Return", "Cumulative_Benchmark",
     "Cumulative_Strategy", "Cumulative_Max", "Drawdown"}

\* C7 as stated: no DataFrame that exists before a call of
\* calc_strategy_performance or calculate_metrics differs after it
C7_NoInputMutated ==
    [][Deriving =>
        \A ref \in DOMAIN heap \cap DOMAIN heap' : heap'[ref] = heap[ref]]_vars

\* C7: calc_strategy_performance leaves every existing DataFrame as it was and
\* returns a new one; calculate_metrics adds the metrics columns to the
\* DataFrame it is given, whose other columns keep their values; the
\* downloaded data is never changed
C7_OnlyMetricsColumnsAdded ==
    [][/\ data' = data
       /\ heap'[data] = heap[data]
       /\ pc \in {"calc", "optimise"} =>
            /\ \A ref \in DOMAIN heap \cap DOMAIN heap' : heap'[ref] = heap[ref]
            /\ pc' = "metrics" => data_with_signals' \notin DOMAIN heap
            /\ (pc' = "optimise" /\ temp_data' # temp_data) =>
                    temp_data' \notin DOMAIN heap
       /\ pc = "metrics" =>
            LET before == heap[data_with_signals]
                after == heap'[data_with_signals]
            IN /\ DOMAIN before \subseteq DOMAIN after
               /\ \A c \in DOMAIN before : after[c] = before[c]
               /\ DOMAIN after \ DOMAIN before \subseteq MetricsColumns
               /\ pc' = "print" => DOMAIN after \ DOMAIN before = MetricsColumns
               /\ \A ref \in DOMAIN heap \ {data_with_signals} :
                    ref \in DOMAIN heap' /\ heap'[ref] = heap[ref]]_vars

\* calculate_metrics has returned in __main__: its argument holds the metrics
\* columns and the downloaded data holds the closes only
C7_Witness ==
    /\ pc = "print"
    /\ data_with_signals # data
    /\ MetricsColumns \subseteq DOMAIN heap[data_with_signals]
    /\ DOMAIN heap[data] = {"Close"}
    /\ Len(heap[data]["Close"]) > 0

\* the series is empty or shorter than both windows, which are positive
TooShort ==
    LET n == Len(heap[data]["Close"])
    IN /\ choice = "1"
       /\ short_window >= 1
       /\ long_window >= 1
       /\ n < short_window
       /\ n < long_window

AllNaN(col) == \A t \in 1..Len(col) : IsNaN(col[t])

\* C8 as stated: on an empty or too short series calc_strategy_performance
\* followed by calculate_metrics raises nothing, the moving averages are all
\* NaN, the signals all 0 and Sharpe and Calmar NaN
C8_ShortSeriesCompletes ==
    TooShort =>
        /\ pc # "raised"
        /\ pc \in {"metrics", "print"} =>
            /\ AllNaN(heap[data_with_signals]["Fast_MA"])
            /\ AllNaN(heap[data_with_signals]["Slow_MA"])
            /\ \A t \in Rows(heap[data_with_signals]) :
                    At(heap[data_with_signals]["Signal"], t) = F(0)
        /\ pc = "print" =>
            /\ IsNaN(metrics["Sharpe Ratio"])
            /\ IsNaN(metrics["Calmar Ratio"])

\* C9 as stated: the flow of __main__ never reaches calc_strategy_performance,
\* calculate_metrics, print_metrics or plot_data with the sentinel (0, 0) that
\* optimise_strategy returned
C9_SentinelTreatedAsFailure ==
    (Returned /\ best_params = <<0, 0>>) => pc \notin {"metrics", "print", "plot", "done"}

\* the crossovers of a frame that are equal to v
CrossoversOf(df, v) == {t \in Rows(df) : At(df["Crossover"], t) = F(v)}

\* C10: for long_window >= 1, crossover[0] is NaN and crossover[t] =
\* signal[t] - signal[t-1] for t > 0, every crossover is -1, 0 or 1, and the
\* +1 crossovers are as many as the -1 crossovers plus the final signal
C10_CrossoverBalance ==
    \A r \in Results :
        r.long >= 1 =>
            LET n == Len(r.df["Signal"])
                ups == Cardinality(CrossoversOf(r.df, 1))
                downs == Cardinality(CrossoversOf(r.df, 0 - 1))
            IN /\ \A t \in Rows(r.df) :
                    IF t = 0 THEN IsNaN(At(r.df["Crossover"], 0))
                    ELSE /\ At(r.df["Crossover"], t) =
                                Sub(At(r.df["Signal"], t), At(r.df["Signal"], t - 1))
                         /\ At(r.df["Crossover"], t) \in {F(0 - 1), F(0), F(1)}
               /\ ups - downs \in {0, 1}
               /\ n >= 1 => F(ups - downs) = At(r.df["Signal"], n - 1)

\* a frame with a +1 and a -1 crossover that ends out of the market, and one
\* that ends in the market
C10_Witness ==
    /\ \E r \in Results :
        /\ r.long >= 1
        /\ CrossoversOf(r.df, 1) # {}
        /\ CrossoversOf(r.df, 0 - 1) # {}
    /\ \E r \in Results :
        /\ r.long >= 1
        /\ Cardinality(CrossoversOf(r.df, 1)) = Cardinality(CrossoversOf(r.df, 0 - 1)) + 1

\* the i-th pair of the sweep, short outer and long inner
SweepPair(i) ==
    <<short_window_range[((i - 1) \div Len(long_window_range)) + 1],
      long_window_range[((i - 1) % Len(long_window_range)) + 1]>>

SweepSize == Len(short_window_range) * Len(long_window_range)

\* the pairs scored so far are the first pairs of the sweep, in its order,
\* each with short < long
SweepInOrder ==
    /\ Len(scored) <= SweepSize
    /\ \A i \in 1..Len(scored) :
        /\ <<scored[i][1], scored[i][2]>> = SweepPair(i)
        /\ scored[i][1] < scored[i][2]

\* the sweep is over 11 x 16 pairs, short in 10, 15 .. 60 and long in
\* 100, 110 .. 250, and none of them has short >= long
SweepRanges ==
    /\ Len(short_window_range) = 11
    /\ Len(long_window_range) = 16
    /\ \A i \in 1..11 : short_window_range[i] = 10 + 5 * (i - 1)
    /\ \A j \in 1..16 : long_window_range[j] = 100 + 10 * (j - 1)
    /\ \A i \in 1..11 : \A j \in 1..16 : short_window_range[i] < long_window_range[j]

\* C11 as stated: optimise_strategy never ends by an exception, scores the
\* 11 x 16 = 176 pairs in short-outer, long-inner order, each once and each
\* with short < long, has scored all of them when it returns, and the price
\* series still holds its closes only
C11_SweepsAllPairs ==
    choice = "2" =>
        /\ SweepRanges
        /\ SweepInOrder
        /\ pc # "raised"
        /\ DOMAIN heap[data] = {"Close"}
        /\ Returned => Len(scored) = SweepSize

\* the same for a series with at least one bar, where it holds
SweepOfNonEmptySeries ==
    Len(heap[data]["Close"]) > 0 => C11_SweepsAllPairs

\* every step of optimise_strategy moves on in the sweep, which has SweepSize
\* places: the loops cannot run for ever
SweepAdvances ==
    [][pc = "optimise" =>
        LET place == (si - 1) * Len(long_window_range) + li
            place_after == (si' - 1) * Len(long_window_range) + li'
        IN /\ place \in 1..(SweepSize + 1)
           /\ pc' = "optimise" => place_after = place + 1
           /\ place = SweepSize + 1 => pc' = "calc"]_vars

====
